---- MODULE Spec2Model ----
(***************************************************************************)
(* Model of the dataset evaluation dispatcher of LangChainPlusClient       *)
(* (src/langchain/client/langchain.py): the pooled dispatcher              *)
(* arun_on_dataset with its asyncio workers, the per-example runners       *)
(* _arun_llm_or_chain / run_llm_or_chain, and the sequential runner        *)
(* run_on_dataset.                                                         *)
(*                                                                         *)
(* One behaviour is one call of arun_on_dataset or of run_on_dataset.     *)
(* Every await of the code is a point where another task may run; the      *)
(* statements between two awaits form one step.                            *)
(***************************************************************************)
EXTENDS Integers, Sequences, FiniteSets, TLC

\* Bounds of the model.
MaxK == 2
MaxW == 2
MaxR == 2

VARIABLES
    call,           \* which entry point runs: "arun_on_dataset" | "run_on_dataset"
    kind,           \* class of llm_or_chain
    hasPrompts,     \* whether example.inputs holds the key "prompts"
    datasetFound,   \* whether read_dataset finds the dataset
    K,              \* number of examples list_examples yields
    W,              \* num_workers
    R,              \* num_repetitions
    mainPc,         \* position of the entry point's own coroutine / function
    raised,         \* exception that left the entry point, or "none"
    session,        \* tracing_v2_enabled scope: "never" | "open" | "closed"
    fed,            \* examples already put (pooled) / already run (sequential)
    markers,        \* None markers already put
    queue,          \* asyncio.Queue contents, oldest first
    unfinished,     \* asyncio.Queue._unfinished_tasks
    wpc,            \* per worker: "unborn" | "get" | "invoke" | "record" | "exited"
    wex,            \* per worker: local variable example (its id)
    wrep,           \* per worker: repetition whose invocation is in flight
    outputs,        \* per worker: local list outputs of the runner
    prev,           \* per worker: local previous_example_id of the runner
    tracer,         \* per worker: tracer.example_id
    results,        \* the dict results
    num_processed,  \* job_state["num_processed"]
    completed,      \* history: example ids in the order their result was written
    dequeued,       \* history: per example, how many times it was taken for running
    log             \* history: per example, whether each of its invocations returned

vars == <<call, kind, hasPrompts, datasetFound, K, W, R, mainPc, raised, session,
          fed, markers, queue, unfinished, wpc, wex, wrep, outputs, prev, tracer,
          results, num_processed, completed, dequeued, log>>

Workers == 1..MaxW
ExampleIds == 1..MaxK

Kinds == {"Chain", "BaseLLM", "BaseChatModel", "OtherLM", "Other"}

\* isinstance(llm_or_chain, BaseLanguageModel)
IsBaseLanguageModel(k) == k \in {"BaseLLM", "BaseChatModel", "OtherLM"}

\* Example.id is a UUID; the tracer's example_id is a UUID or None.
Uuid(n) == <<"uuid", n>>
NoExample == <<"none", 0>>
\* str(example.id)
Str(u) == <<"str", u[2]>>

\* The dataset's example listing, in the order the source yields it.
Examples == [i \in 1..K |-> Uuid(i)]

\* The None marker of the queue.
Marker == <<"none", 0>>

\* Outcomes: a predictor output, or the envelope {"Error": str(e)}.
Output(u) == <<"Output", u[2] * 10>>
ErrorEnvelope(msg) == <<"Error", msg>>

\* Whether one invocation can return (TRUE) or raise (FALSE). A chain may do
\* either. _arun_llm / run_llm read inputs["prompts"] before calling a
\* BaseLLM or BaseChatModel and raise ValueError for any other language
\* model; an object that is no language model has no arun / run.
InvocationResponses(k) ==
    IF k = "Chain" THEN BOOLEAN
    ELSE IF k \in {"BaseLLM", "BaseChatModel"} /\ hasPrompts THEN BOOLEAN
    ELSE {FALSE}

\* str(e) of the exception a failing invocation raises.
RaisedMessage(k) ==
    IF k = "Chain" THEN "boom"
    ELSE IF k \in {"BaseLLM", "BaseChatModel"}
         THEN (IF hasPrompts THEN "boom" ELSE "KeyError")
    ELSE IF k = "OtherLM" THEN "Unsupported LLM type"
    ELSE "AttributeError"

\* The try/except of the runner's loop body: the outcome one repetition
\* contributes; ok says whether the invocation returned.
RepetitionOutcome(k, u, ok) ==
    IF ok THEN Output(u) ELSE ErrorEnvelope(RaisedMessage(k))

\* A runner that records nothing for a failed repetition.
AppendedUnlessError(outs, o) == IF o[1] = "Error" THEN outs ELSE Append(outs, o)

\* outputs.append(...), in the try or in the except branch.
AsyncAppended(outs, o) == Append(outs, o)
SyncAppended(outs, o) == Append(outs, o)

\* The dict results at its creation (results: Dict[str, Any] = {}).
EmptyMap == [k \in {} |-> << >>]

\* A store that replaces the dict instead of adding to it.
WithResultReplacing(map, key, value) == [k \in {key} |-> value]

\* results[key] = value
WithResult(map, key, value) ==
    [k \in (DOMAIN map) \cup {key} |-> IF k = key THEN value ELSE map[k]]

\* The key under which the pooled worker stores a result: str(example.id).
WorkerResultKey(u) == Str(u)

\* The key under which the sequential runner stores a result: example.id.
SequentialResultKey(u) == u

\* A get that leaves the item in the queue.
DequeueKeeping(q) == [item |-> Head(q), rest |-> q]

\* A get that hands out the newest item.
DequeueNewest(q) == [item |-> q[Len(q)], rest |-> SubSeq(q, 1, Len(q) - 1)]

\* queue.get() on a non-empty asyncio.Queue: the oldest item leaves.
Dequeue(q) == [item |-> Head(q), rest |-> Tail(q)]

\* queue.put(item): the item is appended and counted as unfinished.
Enqueue(q, item) == Append(q, item)

\* A task_done that is lost.
TaskDoneLost(n) == n

\* queue.task_done()
TaskDone(n) == n - 1

\* A join that does not wait.
JoinNotWaiting(n) == TRUE

\* queue.join() returns once no put item is unfinished.
JoinReleased(n) == n = 0

\* An increment that counts twice.
IncrementedTwice(n) == n + 2

\* An increment that is lost.
IncrementLost(n) == n

\* job_state["num_processed"] += 1
Incremented(n) == n + 1

\* langchain_tracer.example_id = example.id, at the runner's entry.
EnteredExampleId(previous, u) == u

\* A runner that leaves the tracer on its own example.
ExampleIdNotRestored(previous, u) == u

\* finally: langchain_tracer.example_id = previous_example_id
\* (the finally clause belongs to the try inside the for loop, so it runs
\* after every repetition).
AsyncRestoredExampleId(previous, u) == previous
SyncRestoredExampleId(previous, u) == previous

\* One marker too few.
MarkersOneShort(nworkers) == nworkers - 1

\* for _ in workers: one None per spawned task.
MarkersToPut(nworkers) == nworkers

\* One task too many.
IsSpawnedOneMore(w, nworkers) == w <= nworkers + 1

\* for _ in range(num_workers): the tasks that are created.
IsSpawned(w, nworkers) == w <= nworkers

\* asyncio.Queue() is created without a maxsize: 0, which means no limit.
QueueMaxsize == 0

\* A queue that holds one item at most.
QueueFullAtOne(q) == Len(q) >= 1

\* Queue.full(): put waits while it holds.
QueueFull(q) == QueueMaxsize > 0 /\ Len(q) >= QueueMaxsize

\* A with block that leaves the session as it is.
SessionLeftAsIs(s) == s

\* Leaving the with tracing_v2_enabled(...) block, by return or by exception.
SessionExited(s) == "closed"

\* The pre-flight part shared by both entry points: the isinstance check,
\* then read_dataset. "ok" or the exception that is raised.
Preflight(k, found) ==
    IF IsBaseLanguageModel(k) THEN "NotImplementedError"
    ELSE IF ~found THEN "ValueError"
    ELSE "ok"

Init ==
    /\ call \in {"arun_on_dataset", "run_on_dataset"}
    /\ kind \in Kinds
    /\ hasPrompts \in (IF kind \in {"BaseLLM", "BaseChatModel"} THEN BOOLEAN ELSE {FALSE})
    /\ datasetFound \in BOOLEAN
    /\ K \in 0..MaxK
    /\ W \in (IF call = "arun_on_dataset" THEN 1..MaxW ELSE {1})
    /\ R \in 1..MaxR
    /\ mainPc = "start"
    /\ raised = "none"
    /\ session = "never"
    /\ fed = 0
    /\ markers = 0
    /\ queue = << >>
    /\ unfinished = 0
    /\ wpc = [w \in Workers |-> "unborn"]
    /\ wex = [w \in Workers |-> NoExample]
    /\ wrep = [w \in Workers |-> 0]
    /\ outputs = [w \in Workers |-> << >>]
    /\ prev = [w \in Workers |-> NoExample]
    /\ tracer = [w \in Workers |-> NoExample]
    /\ results = EmptyMap
    /\ num_processed = 0
    /\ completed = << >>
    /\ dequeued = [e \in ExampleIds |-> 0]
    /\ log = [e \in ExampleIds |-> << >>]

-----------------------------------------------------------------------------
(* arun_on_dataset *)

\* Lines 334-346: pre-flight checks, then the tracing session is entered.
PooledStart ==
    /\ call = "arun_on_dataset"
    /\ mainPc = "start"
    /\ LET p == Preflight(kind, datasetFound) IN
       IF p = "ok"
       THEN /\ session' = "open"
            /\ mainPc' = "spawn"
            /\ UNCHANGED raised
       ELSE /\ raised' = p
            /\ mainPc' = "raised"
            /\ UNCHANGED session
    /\ UNCHANGED <<call, kind, hasPrompts, datasetFound, K, W, R, fed, markers, queue,
                   unfinished, wpc, wex, wrep, outputs, prev, tracer, results,
                   num_processed, completed, dequeued, log>>

\* Lines 347-361: num_workers tasks are created, each with its own tracer.
Spawn ==
    /\ mainPc = "spawn"
    /\ wpc' = [w \in Workers |-> IF IsSpawned(w, W) THEN "get" ELSE "unborn"]
    /\ mainPc' = IF K > 0 THEN "feed" ELSE "join"
    /\ UNCHANGED <<call, kind, hasPrompts, datasetFound, K, W, R, raised, session, fed,
                   markers, queue, unfinished, wex, wrep, outputs, prev, tracer,
                   results, num_processed, completed, dequeued, log>>

\* Lines 363-364: one example is put.
Feed ==
    /\ mainPc = "feed"
    /\ ~QueueFull(queue)
    /\ queue' = Enqueue(queue, Examples[fed + 1])
    /\ unfinished' = unfinished + 1
    /\ fed' = fed + 1
    /\ mainPc' = IF fed + 1 < K THEN "feed" ELSE "join"
    /\ UNCHANGED <<call, kind, hasPrompts, datasetFound, K, W, R, raised, session,
                   markers, wpc, wex, wrep, outputs, prev, tracer, results,
                   num_processed, completed, dequeued, log>>

\* Line 366: await queue.join()
Join ==
    /\ mainPc = "join"
    /\ JoinReleased(unfinished)
    /\ mainPc' = IF MarkersToPut(W) > 0 THEN "terminate" ELSE "gather"
    /\ UNCHANGED <<call, kind, hasPrompts, datasetFound, K, W, R, raised, session, fed,
                   markers, queue, unfinished, wpc, wex, wrep, outputs, prev, tracer,
                   results, num_processed, completed, dequeued, log>>

\* Lines 368-369: one None is put.
Terminate ==
    /\ mainPc = "terminate"
    /\ ~QueueFull(queue)
    /\ queue' = Enqueue(queue, Marker)
    /\ unfinished' = unfinished + 1
    /\ markers' = markers + 1
    /\ mainPc' = IF markers + 1 < MarkersToPut(W) THEN "terminate" ELSE "gather"
    /\ UNCHANGED <<call, kind, hasPrompts, datasetFound, K, W, R, raised, session, fed,
                   wpc, wex, wrep, outputs, prev, tracer, results, num_processed,
                   completed, dequeued, log>>

\* Lines 371-373: gather returns once every task has ended; the results are
\* returned through the end of the with block, which closes the session.
Gather ==
    /\ mainPc = "gather"
    /\ \A w \in Workers : IsSpawned(w, W) => wpc[w] = "exited"
    /\ session' = SessionExited(session)
    /\ mainPc' = "done"
    /\ UNCHANGED <<call, kind, hasPrompts, datasetFound, K, W, R, raised, fed, markers,
                   queue, unfinished, wpc, wex, wrep, outputs, prev, tracer, results,
                   num_processed, completed, dequeued, log>>

-----------------------------------------------------------------------------
(* _worker and _arun_llm_or_chain *)

\* Lines 292-294 and, for an example, lines 296 and 259-262: the item is
\* dequeued; on None the loop is left; otherwise the runner is entered and
\* suspends in its first predictor invocation.
WorkerGet(w) ==
    /\ wpc[w] = "get"
    /\ queue # << >>
    /\ LET d == Dequeue(queue) IN
       /\ queue' = d.rest
       /\ IF d.item = Marker
          THEN /\ wpc' = [wpc EXCEPT ![w] = "exited"]
               /\ UNCHANGED <<wex, wrep, outputs, prev, tracer, dequeued>>
          ELSE /\ wex' = [wex EXCEPT ![w] = d.item]
               /\ prev' = [prev EXCEPT ![w] = tracer[w]]
               /\ tracer' = [tracer EXCEPT ![w] = EnteredExampleId(tracer[w], d.item)]
               /\ outputs' = [outputs EXCEPT ![w] = << >>]
               /\ wrep' = [wrep EXCEPT ![w] = 1]
               /\ wpc' = [wpc EXCEPT ![w] = "invoke"]
               /\ dequeued' = [dequeued EXCEPT ![d.item[2]] = @ + 1]
    /\ UNCHANGED <<call, kind, hasPrompts, datasetFound, K, W, R, mainPc, raised, session,
                   fed, markers, unfinished, results, num_processed, completed, log>>

\* Lines 263-277: the invocation in flight ends (returns or raises); its
\* outcome is appended, the finally clause runs, and the next repetition's
\* invocation starts or the loop ends.
WorkerInvoke(w) ==
    /\ wpc[w] = "invoke"
    /\ \E ok \in InvocationResponses(kind) :
          /\ outputs' = [outputs EXCEPT ![w] =
                             AsyncAppended(@, RepetitionOutcome(kind, wex[w], ok))]
          /\ log' = [log EXCEPT ![wex[w][2]] = Append(@, ok)]
    /\ tracer' = [tracer EXCEPT ![w] = AsyncRestoredExampleId(prev[w], wex[w])]
    /\ IF wrep[w] < R
       THEN /\ wrep' = [wrep EXCEPT ![w] = @ + 1]
            /\ UNCHANGED wpc
       ELSE /\ wpc' = [wpc EXCEPT ![w] = "record"]
            /\ UNCHANGED wrep
    /\ UNCHANGED <<call, kind, hasPrompts, datasetFound, K, W, R, mainPc, raised, session,
                   fed, markers, queue, unfinished, wex, prev, results, num_processed,
                   completed, dequeued>>

\* Lines 278 and 302-304: the runner returns outputs; the worker stores them,
\* marks the queue item done and counts the example. The runner's frame
\* (outputs, previous_example_id, the loop index) is gone after the return, and
\* the worker's example and result are not read again before line 292
\* reassigns them, so the slot's locals go back to their initial values.
WorkerRecord(w) ==
    /\ wpc[w] = "record"
    /\ results' = WithResult(results, WorkerResultKey(wex[w]), outputs[w])
    /\ unfinished' = TaskDone(unfinished)
    /\ num_processed' = Incremented(num_processed)
    /\ completed' = Append(completed, wex[w])
    /\ wpc' = [wpc EXCEPT ![w] = "get"]
    /\ wex' = [wex EXCEPT ![w] = NoExample]
    /\ wrep' = [wrep EXCEPT ![w] = 0]
    /\ outputs' = [outputs EXCEPT ![w] = << >>]
    /\ prev' = [prev EXCEPT ![w] = NoExample]
    /\ UNCHANGED <<call, kind, hasPrompts, datasetFound, K, W, R, mainPc, raised, session,
                   fed, markers, queue, tracer, dequeued, log>>

-----------------------------------------------------------------------------
(* run_on_dataset and run_llm_or_chain; the one tracer and the runner's
   locals live in slot 1 *)

\* Lines 443-454: pre-flight checks, the tracing session is entered and the
\* tracer is created.
SequentialStart ==
    /\ call = "run_on_dataset"
    /\ mainPc = "start"
    /\ LET p == Preflight(kind, datasetFound) IN
       IF p = "ok"
       THEN /\ session' = "open"
            /\ mainPc' = "seq_next"
            /\ UNCHANGED raised
       ELSE /\ raised' = p
            /\ mainPc' = "raised"
            /\ UNCHANGED session
    /\ UNCHANGED <<call, kind, hasPrompts, datasetFound, K, W, R, fed, markers, queue,
                   unfinished, wpc, wex, wrep, outputs, prev, tracer, results,
                   num_processed, completed, dequeued, log>>

\* Lines 456-457 and 402-405: the for loop takes the next example and enters
\* the runner, or ends.
SequentialNext ==
    /\ mainPc = "seq_next"
    /\ IF fed < K
       THEN /\ wex' = [wex EXCEPT ![1] = Examples[fed + 1]]
            /\ prev' = [prev EXCEPT ![1] = tracer[1]]
            /\ tracer' = [tracer EXCEPT ![1] = EnteredExampleId(tracer[1], Examples[fed + 1])]
            /\ outputs' = [outputs EXCEPT ![1] = << >>]
            /\ wrep' = [wrep EXCEPT ![1] = 1]
            /\ dequeued' = [dequeued EXCEPT ![fed + 1] = @ + 1]
            /\ mainPc' = "seq_invoke"
       ELSE /\ mainPc' = "seq_store"
            /\ UNCHANGED <<wex, prev, tracer, outputs, wrep, dequeued>>
    /\ UNCHANGED <<call, kind, hasPrompts, datasetFound, K, W, R, raised, session, fed,
                   markers, queue, unfinished, wpc, results, num_processed, completed, log>>

\* Lines 406-421 and 457-464: one repetition's invocation ends; after the
\* last one the runner returns and its outputs become the local result.
SequentialInvoke ==
    /\ mainPc = "seq_invoke"
    /\ \E ok \in InvocationResponses(kind) :
          /\ outputs' = [outputs EXCEPT ![1] =
                             SyncAppended(@, RepetitionOutcome(kind, wex[1], ok))]
          /\ log' = [log EXCEPT ![wex[1][2]] = Append(@, ok)]
    /\ tracer' = [tracer EXCEPT ![1] = SyncRestoredExampleId(prev[1], wex[1])]
    /\ IF wrep[1] < R
       THEN /\ wrep' = [wrep EXCEPT ![1] = @ + 1]
            /\ UNCHANGED <<fed, mainPc>>
       ELSE /\ fed' = fed + 1
            /\ mainPc' = "seq_next"
            /\ UNCHANGED wrep
    /\ UNCHANGED <<call, kind, hasPrompts, datasetFound, K, W, R, raised, session, markers,
                   queue, unfinished, wpc, wex, prev, results, num_processed, completed,
                   dequeued>>

\* Lines 465-466: after the loop, results[example.id] = result, with the
\* loop's last example and result; with no example the names are unbound and
\* the statement raises. Leaving the with block closes the session.
SequentialStore ==
    /\ mainPc = "seq_store"
    /\ session' = SessionExited(session)
    /\ IF fed = 0
       THEN /\ raised' = "NameError"
            /\ mainPc' = "raised"
            /\ UNCHANGED <<results, completed>>
       ELSE /\ results' = WithResult(results, SequentialResultKey(wex[1]), outputs[1])
            /\ completed' = Append(completed, wex[1])
            /\ mainPc' = "done"
            /\ UNCHANGED raised
    /\ UNCHANGED <<call, kind, hasPrompts, datasetFound, K, W, R, fed, markers, queue,
                   unfinished, wpc, wex, wrep, outputs, prev, tracer, num_processed,
                   dequeued, log>>

-----------------------------------------------------------------------------

Main ==
    \/ PooledStart
    \/ Spawn
    \/ Feed
    \/ Join
    \/ Terminate
    \/ Gather
    \/ SequentialStart
    \/ SequentialNext
    \/ SequentialInvoke
    \/ SequentialStore

Worker(w) ==
    \/ WorkerGet(w)
    \/ WorkerInvoke(w)
    \/ WorkerRecord(w)

Next ==
    \/ Main
    \/ \E w \in Workers : Worker(w)

Spec == Init /\ [][Next]_vars

\* The event loop runs every task that can run, and every predictor
\* invocation ends.
LiveSpec == Spec /\ WF_vars(Main) /\ \A w \in Workers : WF_vars(Worker(w))

-----------------------------------------------------------------------------
(* Properties *)

Pooled == call = "arun_on_dataset"
Sequential == call = "run_on_dataset"
Done == mainPc = "done"

Range(f) == {f[i] : i \in DOMAIN f}

\* The outcome sequence example i must have, given what its invocations did.
ExpectedOutcomes(i) ==
    [j \in 1..R |-> IF log[i][j] THEN Output(Uuid(i))
                    ELSE ErrorEnvelope(RaisedMessage(kind))]

AllFailed(i) == Len(log[i]) = R /\ \A j \in 1..R : ~log[i][j]
AllReturned(i) == Len(log[i]) = R /\ \A j \in 1..R : log[i][j]

\* The map with one entry per example, keyed by the id's string.
CompleteResultMap ==
    [k \in {Str(Uuid(i)) : i \in 1..K} |-> ExpectedOutcomes(k[2])]

\* C1: when arun_on_dataset returns for K examples with distinct ids and
\* 1 <= W <= K workers, the result map has exactly K keys, one per example
\* id, and every value is a sequence of length exactly R.
C1_PooledShape ==
    (Pooled /\ Done /\ 1 <= W /\ W <= K) =>
        /\ DOMAIN results = {Str(Examples[i]) : i \in 1..K}
        /\ Cardinality(DOMAIN results) = K
        /\ \A k \in DOMAIN results : Len(results[k]) = R

C1_Witness == Pooled /\ Done /\ K = 2 /\ W = 2 /\ R = 2

\* C2: failure isolation. When arun_on_dataset returns, an example all of
\* whose invocations failed is in the result map with exactly R
\* error-outcomes, the map has K keys, and every example's outcome sequence
\* is determined by its own invocations alone. In both runners a failed
\* invocation leaves the runner with R outcomes for its example and no
\* predictor failure leaves the entry point.
C2_FailureIsolation ==
    /\ (Pooled /\ Done) =>
          /\ Cardinality(DOMAIN results) = K
          /\ \A i \in 1..K :
                /\ Len(log[i]) = R
                /\ Str(Uuid(i)) \in DOMAIN results
                /\ results[Str(Uuid(i))] = ExpectedOutcomes(i)
                /\ AllFailed(i) =>
                      results[Str(Uuid(i))] =
                          [j \in 1..R |-> ErrorEnvelope(RaisedMessage(kind))]
    /\ \A w \in Workers : wpc[w] = "record" =>
          /\ Len(log[wex[w][2]]) = R
          /\ outputs[w] = ExpectedOutcomes(wex[w][2])
    /\ (Sequential /\ mainPc = "seq_next" /\ fed > 0) =>
          /\ Len(log[fed]) = R
          /\ outputs[1] = ExpectedOutcomes(fed)
    /\ raised \in {"none", "NotImplementedError", "ValueError", "NameError"}

C2_Witness ==
    /\ Pooled /\ Done /\ K = 2 /\ R = 2 /\ kind = "Chain"
    /\ AllFailed(1)
    /\ AllReturned(2)
    /\ completed = <<Uuid(1), Uuid(2)>>

\* C3: during every predictor invocation made by the per-example runner for
\* example X, in every repetition, the invoking worker's tracer.example_id
\* equals X's id.
C3_ActiveExampleDuringInvocation ==
    /\ \A w \in Workers : wpc[w] = "invoke" => tracer[w] = wex[w]
    /\ mainPc = "seq_invoke" => tracer[1] = wex[1]

\* C4: after the per-example runner returns, tracer.example_id equals the
\* value it held immediately before that runner started (the value the tracer
\* was created with, as every earlier runner restored it too); hence when the
\* run is done no tracer points at a finished example.
C4_ExampleIdRestored ==
    /\ \A w \in Workers :
          /\ wpc[w] = "record" => tracer[w] = prev[w]
          /\ wpc[w] \in {"get", "record", "exited"} => tracer[w] = NoExample
    /\ (mainPc = "seq_next" /\ fed > 0) => tracer[1] = prev[1]
    /\ mainPc \in {"seq_next", "seq_store"} => tracer[1] = NoExample
    /\ Done => \A w \in Workers : tracer[w] \notin Range(completed)

C4_Witness ==
    /\ Pooled /\ Done /\ R = 2 /\ K = 2
    /\ \E i \in 1..K : ~log[i][1] /\ log[i][2]

\* C5: for a deterministic predictor run_on_dataset returns a result map with
\* the same key set and the same per-key outcome sequences as
\* arun_on_dataset returns for the same inputs (CompleteResultMap, by
\* C2_FailureIsolation and C1_PooledShape).
C5_SequentialEquivalence ==
    (Sequential /\ Preflight(kind, datasetFound) = "ok"
                /\ mainPc \in {"done", "raised"}) =>
        /\ Done
        /\ DOMAIN results = DOMAIN CompleteResultMap
        /\ results = CompleteResultMap

\* C6: the processed-counter is incremented exactly once per completed
\* example, never per repetition and never lost, so it equals K when
\* arun_on_dataset is done.
C6_ProcessedCounter ==
    Pooled =>
        /\ num_processed = Len(completed)
        /\ num_processed = Cardinality(DOMAIN results)
        /\ Done => num_processed = K

C6_Witness == Pooled /\ Done /\ W = 2 /\ K = 2 /\ R = 2 /\ num_processed = 2

\* C7: a predictor that is neither a supported bare model nor a chain makes
\* the dispatcher fail before a session is opened, a worker is spawned or an
\* example is dequeued, and never shows up as error-outcomes of a result map.
C7_UnsupportedKindFailsFirst ==
    kind \notin {"Chain", "BaseLLM", "BaseChatModel"} =>
        /\ mainPc \in {"start", "raised"}
        /\ session = "never"
        /\ \A w \in Workers : wpc[w] = "unborn"
        /\ \A e \in ExampleIds : dequeued[e] = 0
        /\ results = EmptyMap

\* C8: given a bare-model predictor and examples whose inputs hold prompts,
\* the run (pooled or sequential) passes INIT, dispatches every example and
\* returns a result map of K keys.
C8_BareModelEvaluated ==
    (kind \in {"BaseLLM", "BaseChatModel"} /\ hasPrompts /\ datasetFound) =>
        /\ mainPc # "raised"
        /\ Done => Cardinality(DOMAIN results) = K

\* C9: with W = 1 the order in which examples complete equals the order in
\* which they were enqueued; with any W the run ends with K keys, each of
\* length R.
C9_CompletionOrder ==
    Pooled =>
        /\ W = 1 => completed = SubSeq(Examples, 1, Len(completed))
        /\ Done => /\ Cardinality(DOMAIN results) = K
                   /\ Range(completed) = Range(Examples)
                   /\ \A k \in DOMAIN results : Len(results[k]) = R

C9_Witness == Pooled /\ Done /\ W = 1 /\ K = 2 /\ completed = <<Uuid(1), Uuid(2)>>

\* C10: under fairness, every run of arun_on_dataset that has passed its
\* pre-flight checks eventually is done: the join releases, every worker
\* takes a marker and ends, and gather returns.
C10_PooledTerminates ==
    (Pooled /\ mainPc = "spawn") ~> (Done /\ \A w \in 1..W : wpc[w] = "exited")

C10_Witness ==
    /\ Pooled /\ Done /\ W = 2 /\ K = 2
    /\ \A w \in 1..W : wpc[w] = "exited"

\* Histories read off the state.
MarkersInQueue == Cardinality({i \in DOMAIN queue : queue[i] = Marker})
ExamplesInQueue == {queue[i] : i \in DOMAIN queue} \ {Marker}
ExitedWorkers == {w \in Workers : wpc[w] = "exited"}
RunningWorkers == {w \in Workers : wpc[w] \in {"invoke", "record"}}

\* C11: exactly W markers are enqueued in total, all of them after every
\* example has been enqueued; each worker consumes exactly one marker and each
\* marker is consumed by exactly one worker, so when arun_on_dataset is done
\* the queue holds neither examples nor markers.
C11_MarkerProtocol ==
    Pooled =>
        /\ markers <= W
        /\ markers > 0 => fed = K
        /\ mainPc \in {"gather", "done"} => markers = W
        /\ markers = Cardinality(ExitedWorkers) + MarkersInQueue
        /\ Done => /\ queue = << >>
                   /\ ExitedWorkers = 1..W

C11_Witness ==
    /\ Pooled /\ Done /\ W = 2 /\ K = 2
    /\ markers = 2 /\ queue = << >> /\ ExitedWorkers = {1, 2}

\* C12: the feeder enqueues no marker while an enqueued example is still in
\* the queue or still being processed; when the first marker is enqueued the
\* result map already holds the full outcome sequence of every example.
C12_DrainBarrier ==
    (Pooled /\ (mainPc = "terminate" \/ markers > 0)) =>
        /\ ExamplesInQueue = {}
        /\ RunningWorkers = {}
        /\ fed = K
        /\ \A i \in 1..K : Len(log[i]) = R
        /\ results = CompleteResultMap

C12_Witness ==
    /\ Pooled /\ mainPc = "terminate" /\ markers = 0 /\ K = 2 /\ W = 2 /\ R = 2
    /\ Cardinality(DOMAIN results) = 2

\* C13: each enqueued example is dequeued exactly once and all of its R
\* outcomes are produced by that one worker, so in no reachable state are two
\* workers processing, or about to write the result-map key of, the same
\* example.
C13_OneWorkerPerExample ==
    Pooled =>
        /\ \A e \in ExampleIds : dequeued[e] <= 1
        /\ \A e \in ExampleIds : dequeued[e] = 0 => log[e] = << >>
        /\ \A v, w \in RunningWorkers : v # w => wex[v] # wex[w]
        /\ \A w \in RunningWorkers :
              /\ dequeued[wex[w][2]] = 1
              /\ wex[w] \notin ExamplesInQueue
              /\ WorkerResultKey(wex[w]) \notin DOMAIN results
              /\ Len(log[wex[w][2]]) = Len(outputs[w])
        /\ Done => \A i \in 1..K : dequeued[i] = 1 /\ Len(log[i]) = R

C13_Witness ==
    /\ Pooled /\ K = 2 /\ W = 2
    /\ wpc[1] = "invoke" /\ wpc[2] = "invoke"
    /\ wex[1] = Uuid(2) /\ wex[2] = Uuid(1)

RECURSIVE SumTo(_, _)
SumTo(f, n) == IF n = 0 THEN 0 ELSE f[n] + SumTo(f, n - 1)

\* Number of examples taken from the queue (or from the listing) so far.
TotalDequeued == SumTo(dequeued, MaxK)

\* C14: in every reachable state the number of examples that were dequeued
\* but whose result is not yet written is at most W; putting an example or a
\* marker is never blocked by the queue's capacity.
C14_ConcurrencyBound ==
    Pooled =>
        /\ TotalDequeued - Len(completed) <= W
        /\ TotalDequeued - Len(completed) = Cardinality(RunningWorkers)
        /\ ~QueueFull(queue)
        /\ mainPc = "feed" => ENABLED Feed
        /\ mainPc = "terminate" => ENABLED Terminate

C14_Witness ==
    /\ Pooled /\ W = 1 /\ K = 2 /\ mainPc = "join"
    /\ Len(queue) = 1 /\ Cardinality(RunningWorkers) = 1

\* C15: the trace session is closed on every exit path: whenever a run has
\* ended, by return or by an exception raised inside the with block, the
\* session is not open, and after a pre-flight failure (unsupported
\* predictor, dataset not found) it was never opened.
C15_SessionClosed ==
    /\ mainPc \in {"done", "raised"} => session # "open"
    /\ Done => session = "closed"
    /\ raised = "NameError" => session = "closed"
    /\ raised \in {"NotImplementedError", "ValueError"} => session = "never"
    /\ (mainPc = "start") => session = "never"
    /\ mainPc \notin {"start", "done", "raised"} => session = "open"

C15_Witness ==
    /\ Sequential /\ raised = "NameError" /\ mainPc = "raised"
    /\ session = "closed"

\* C16: for an example and R >= 1 the runner invokes the predictor exactly R
\* times, one after another and with no retry; the i-th outcome is the i-th
\* invocation's result if it returned and the error envelope of that
\* invocation otherwise, so a failing repetition neither drops nor shifts the
\* outcomes of the other repetitions.
C16_RunnerOutcomes ==
    /\ \A w \in Workers :
          /\ wpc[w] = "invoke" =>
                /\ wrep[w] \in 1..R
                /\ Len(log[wex[w][2]]) = wrep[w] - 1
                /\ Len(outputs[w]) = wrep[w] - 1
                /\ \A j \in 1..(wrep[w] - 1) :
                      outputs[w][j] = RepetitionOutcome(kind, wex[w], log[wex[w][2]][j])
          /\ wpc[w] = "record" =>
                /\ Len(log[wex[w][2]]) = R
                /\ outputs[w] = ExpectedOutcomes(wex[w][2])
    /\ mainPc = "seq_invoke" =>
          /\ wrep[1] \in 1..R
          /\ Len(log[wex[1][2]]) = wrep[1] - 1
          /\ Len(outputs[1]) = wrep[1] - 1
          /\ \A j \in 1..(wrep[1] - 1) :
                outputs[1][j] = RepetitionOutcome(kind, wex[1], log[wex[1][2]][j])
    /\ (mainPc \in {"seq_next", "seq_store"} /\ fed > 0) =>
          /\ Len(log[fed]) = R
          /\ outputs[1] = ExpectedOutcomes(fed)
    /\ \A e \in ExampleIds : Len(log[e]) <= R

C16_Witness ==
    /\ Sequential /\ mainPc = "seq_store" /\ R = 2 /\ K = 2
    /\ log[2] = <<FALSE, TRUE>>
    /\ outputs[1] = <<ErrorEnvelope("boom"), Output(Uuid(2))>>

\* A step that changes the result map is one worker storing the example it
\* holds under a key the map does not have yet.
StoresOneNewKey ==
    \E w \in Workers :
        /\ wpc[w] = "record"
        /\ wpc'[w] = "get"
        /\ WorkerResultKey(wex[w]) \notin DOMAIN results
        /\ DOMAIN results' = DOMAIN results \cup {WorkerResultKey(wex[w])}
        /\ results'[WorkerResultKey(wex[w])] = outputs[w]

\* C17: the result map is populated monotonically: it is empty until the
\* workers are spawned, every step that changes it is a worker adding the key
\* of the example it holds, and no step removes or overwrites an entry.
C17_MonotoneResults ==
    /\ [](mainPc \in {"start", "spawn"} => results = EmptyMap)
    /\ [][Pooled =>
            /\ \A k \in DOMAIN results :
                  k \in DOMAIN results' /\ results'[k] = results[k]
            /\ results' # results => StoresOneNewKey]_vars

C17_Witness ==
    /\ Pooled /\ mainPc = "join" /\ K = 2 /\ R = 2
    /\ Cardinality(DOMAIN results) = 2
    /\ RunningWorkers = {}

\* C18: when W > K (K = 0 included) arun_on_dataset still becomes done; the
\* examples are taken K times in all, so at least W - K workers take none,
\* every worker consumes one marker and ends, the result map has exactly K
\* keys and the counter equals K.
C18_SurplusWorkers ==
    /\ [](Pooled /\ W > K =>
            /\ TotalDequeued <= K
            /\ Cardinality(RunningWorkers) <= K
            /\ Done => /\ TotalDequeued = K
                       /\ ExitedWorkers = 1..W
                       /\ markers = W
                       /\ MarkersInQueue = 0
                       /\ Cardinality(DOMAIN results) = K
                       /\ num_processed = K)
    /\ (Pooled /\ W > K /\ mainPc = "spawn") ~> Done

C18_Witness ==
    /\ Pooled /\ Done /\ W = 2 /\ K = 1
    /\ ExitedWorkers = {1, 2}
    /\ num_processed = 1

\* C19: in every reachable state of a run of arun_on_dataset,
\* processed-count <= number of keys of the result map <= number of examples
\* dequeued so far <= K.
C19_CounterChain ==
    Pooled =>
        /\ num_processed <= Cardinality(DOMAIN results)
        /\ Cardinality(DOMAIN results) <= TotalDequeued
        /\ TotalDequeued <= fed
        /\ fed <= K

C19_Witness ==
    /\ Pooled /\ K = 2
    /\ num_processed = 1 /\ Cardinality(DOMAIN results) = 1 /\ TotalDequeued = 2

====
